---- MODULE Spec2Model ----
(***************************************************************************)
(* Version tree viewer: the tree linearization engine (app/tree.py) and    *)
(* the in-memory store and query handlers that use it (app/main.py).       *)
(*                                                                         *)
(* Version ids are modelled as the integers 1..MaxNodes, the absent        *)
(* parent_id (Python None) as 0, and MaxNodes+1 is an id that no version   *)
(* ever carries (a dangling parent reference).  An Optional[LinearizedNode]*)
(* is a sequence of length 0 (None) or 1.                                  *)
(***************************************************************************)
EXTENDS Integers, Sequences, FiniteSets, TLC

\* ---------------------------------------------------------------------
\* Bounds
\* ---------------------------------------------------------------------
MaxNodes == 4       \* versions in one collection
MaxLen == 5         \* length of a sequence handed to get_page
MaxPageSize == 3    \* page_size values tried
PageSlack == 2      \* how far below 1 / above total_pages a requested page goes
MaxSeed == 2        \* versions in one POST /versions/seed body

\* ---------------------------------------------------------------------
\* models.py
\* ---------------------------------------------------------------------
None == 0

Ids == 1..MaxNodes
ParentIds == 0..(MaxNodes + 1)

\* Version: only the fields the engine reads (id, parent_id).
Version(id, parent_id) == [id |-> id, parent_id |-> parent_id]

LinearizedNode(version, depth, connectors, ancestors, is_last_child) ==
    [version |-> version, depth |-> depth, connectors |-> connectors,
     ancestors |-> ancestors, is_last_child |-> is_last_child]

\* ---------------------------------------------------------------------
\* tree.py: connector tokens (box-drawing glyphs written in ASCII)
\* ---------------------------------------------------------------------
VERTICAL == "|"
TEE == "+--"
CORNER == "L--"
SPACE == "   "
NODE_DOT == "o"

\* ---------------------------------------------------------------------
\* Python helpers
\* ---------------------------------------------------------------------
Max(a, b) == IF a >= b THEN a ELSE b
Min(a, b) == IF a <= b THEN a ELSE b

\* a slice bound as Python normalises it: negative counts from the end,
\* and both ends are clipped into 0..len
SliceBound(x, len) == IF x < 0 THEN Max(0, x + len) ELSE Min(x, len)

\* s[a:b]
PySlice(s, a, b) ==
    LET lo == SliceBound(a, Len(s))
        hi == SliceBound(b, Len(s))
    IN  IF hi <= lo THEN << >> ELSE [i \in 1..(hi - lo) |-> s[lo + i]]

RECURSIVE SelectIds(_, _)
\* [v.id for v in vs if v.parent_id in parents], in input order
SelectIds(vs, parents) ==
    IF vs = << >> THEN << >>
    ELSE IF Head(vs).parent_id \in parents
         THEN <<Head(vs).id>> \o SelectIds(Tail(vs), parents)
         ELSE SelectIds(Tail(vs), parents)

\* ---------------------------------------------------------------------
\* tree.py: TreeBuilder.__init__
\* ---------------------------------------------------------------------
\* {v.id: v for v in versions}: a later entry overwrites an earlier one
IndexVersions(vs) ==
    LET ids == { vs[i].id : i \in 1..Len(vs) }
    IN  [id \in ids |->
            LET last == CHOOSE i \in 1..Len(vs) :
                            /\ vs[i].id = id
                            /\ \A j \in 1..Len(vs) : vs[j].id = id => j <= i
            IN  vs[last]]

\* defaultdict(list) filled by self._children[v.parent_id].append(v.id)
BuildChildren(vs) ==
    LET keys == { vs[i].parent_id : i \in 1..Len(vs) }
    IN  [p \in keys |-> SelectIds(vs, {p})]

\* slip: only parent_id None makes a root
BuildRoots_null_only(vs, index) == SelectIds(vs, {None})

\* ids of versions whose parent_id is None or names no indexed version
BuildRoots(vs, index) ==
    SelectIds(vs, {None} \cup
                  ({ vs[i].parent_id : i \in 1..Len(vs) } \ DOMAIN index))

TreeBuilder(vs) ==
    LET index == IndexVersions(vs)
    IN  [versions |-> index,
         children |-> BuildChildren(vs),
         roots    |-> BuildRoots(vs, index)]

\* self._children.get(key, [])
ChildrenGet(b, key) ==
    IF key \in DOMAIN b.children THEN b.children[key] ELSE << >>

\* ---------------------------------------------------------------------
\* tree.py: _is_last_child, _build_connectors, _dfs, linearize
\* ---------------------------------------------------------------------
_is_last_child(b, node_id) ==
    LET version  == b.versions[node_id]
        siblings == ChildrenGet(b, version.parent_id)
    IN  siblings = << >> \/ siblings[Len(siblings)] = node_id

\* slip: every branch_open flag drawn, the node's own level included
_build_connectors_all_levels(branch_open, depth, is_last_child) ==
    IF depth = 0 THEN <<NODE_DOT>>
    ELSE [i \in 1..Len(branch_open) |->
              IF branch_open[i] THEN VERTICAL ELSE SPACE]
         \o <<IF is_last_child THEN CORNER ELSE TEE>>
         \o <<NODE_DOT>>

_build_connectors(branch_open, depth, is_last_child) ==
    IF depth = 0 THEN <<NODE_DOT>>
    ELSE LET upper == PySlice(branch_open, 0, Len(branch_open) - 1)
         IN  [i \in 1..Len(upper) |-> IF upper[i] THEN VERTICAL ELSE SPACE]
             \o <<IF is_last_child THEN CORNER ELSE TEE>>
             \o <<NODE_DOT>>

\* slip: the parent pushed at the front of the path
ChildAncestors_prepend(ancestors, node_id) == <<node_id>> \o ancestors

\* what the recursive call passes down
ChildAncestors(ancestors, node_id) == ancestors \o <<node_id>>
ChildBranchOpen(branch_open, child_is_last) == branch_open \o <<~child_is_last>>

RECURSIVE _dfs(_, _, _, _)
RECURSIVE DfsChildren(_, _, _, _, _, _)

\* the nodes _dfs appends to result, in the order it appends them
_dfs(b, node_id, ancestors, branch_open) ==
    LET version    == b.versions[node_id]
        children   == ChildrenGet(b, node_id)
        depth      == Len(ancestors)
        is_last    == _is_last_child(b, node_id)
        connectors == _build_connectors(branch_open, depth, is_last)
    IN  <<LinearizedNode(version, depth, connectors, ancestors, is_last)>>
        \o DfsChildren(b, node_id, children, 1, ancestors, branch_open)

\* the loop "for idx, child_id in enumerate(children)" from position idx on
DfsChildren(b, node_id, children, idx, ancestors, branch_open) ==
    IF idx > Len(children) THEN << >>
    ELSE LET child_is_last == (idx = Len(children))
         IN  _dfs(b, children[idx],
                  ChildAncestors(ancestors, node_id),
                  ChildBranchOpen(branch_open, child_is_last))
             \o DfsChildren(b, node_id, children, idx + 1, ancestors, branch_open)

RECURSIVE LinearizeFrom(_, _)
\* the loop "for root_id in self._roots" from position k on
LinearizeFrom(b, k) ==
    IF k > Len(b.roots) THEN << >>
    ELSE _dfs(b, b.roots[k], << >>, << >>) \o LinearizeFrom(b, k + 1)

linearize(b) == LinearizeFrom(b, 1)

\* ---------------------------------------------------------------------
\* tree.py: get_page, lookup
\* ---------------------------------------------------------------------
\* slip: floor instead of ceiling
CeilDiv_floor(total, page_size) == total \div page_size

CeilDiv(total, page_size) == -((-total) \div page_size)

PageStart(page, page_size) == (page - 1) * page_size

\* slip: no lower clamp
ClampPage_upper_only(page, total_pages) == Min(page, total_pages)

ClampPage(page, total_pages) == Max(1, Min(page, total_pages))

get_page(lin, page, page_size) ==
    LET total       == Len(lin)
        total_pages == Max(1, CeilDiv(total, page_size))
        p           == ClampPage(page, total_pages)
        start       == PageStart(p, page_size)
    IN  <<PySlice(lin, start, start + page_size), total_pages>>

\* first element of lin whose version id is node_id, or None
FirstById(lin, node_id) ==
    LET hits == { i \in 1..Len(lin) : lin[i].version.id = node_id }
    IN  IF hits = {} THEN << >>
        ELSE <<lin[CHOOSE i \in hits : \A j \in hits : i <= j]>>

lookup(b, node_id) == FirstById(linearize(b), node_id)

\* ---------------------------------------------------------------------
\* main.py: get_version
\* ---------------------------------------------------------------------
\* [n for n in lin if n.version.id in node.ancestors]
RECURSIVE AncestryNodes(_, _)
AncestryNodes(lin, node) ==
    IF lin = << >> THEN << >>
    ELSE IF \E i \in 1..Len(node.ancestors) : node.ancestors[i] = Head(lin).version.id
         THEN <<Head(lin)>> \o AncestryNodes(Tail(lin), node)
         ELSE AncestryNodes(Tail(lin), node)

\* slip: ancestry picked by depth instead of by id
get_version_by_depth(lin, version_id) ==
    LET node == FirstById(lin, version_id)
    IN  IF node = << >>
        THEN [status |-> 404, node |-> << >>, ancestry |-> << >>]
        ELSE [status |-> 200, node |-> node,
              ancestry |-> SelectSeq(lin, LAMBDA n : n.depth < node[1].depth)]

get_version(lin, version_id) ==
    LET node == FirstById(lin, version_id)
    IN  IF node = << >>
        THEN [status |-> 404, node |-> << >>, ancestry |-> << >>]
        ELSE [status |-> 200, node |-> node,
              ancestry |-> AncestryNodes(lin, node[1])]

\* ---------------------------------------------------------------------
\* State
\* ---------------------------------------------------------------------
VARIABLES
    _versions,      \* main.py _versions: the stored collection, in supply order
    _builder,       \* main.py _builder: TreeBuilder(_versions)
    _linearized,    \* main.py _linearized: cached _builder.linearize()
    op,             \* the last call made on the engine
    arg,            \* its id argument
    response,       \* what it returned
    pgList,         \* get_page: the sequence being paged
    pgSize,         \* get_page: page_size
    pgPage,         \* get_page: the page last requested
    pgRet,          \* get_page: (page_nodes, total_pages) last returned
    pgAcc,          \* a client reading pages 1, 2, ...: the nodes read so far
    pgNext          \* ... and the page it reads next

treeVars == <<_versions, _builder, _linearized, op, arg, response>>
pageVars == <<pgList, pgSize, pgPage, pgRet, pgAcc, pgNext>>
vars == <<_versions, _builder, _linearized, op, arg, response,
          pgList, pgSize, pgPage, pgRet, pgAcc, pgNext>>

\* sequences of length n over S without repetition
InjSeqs(S, n) ==
    { s \in [1..n -> S] : \A i, j \in 1..n : s[i] = s[j] => i = j }

\* The engine only ever compares ids for equality, so renaming the ids of
\* a collection renames its result; two namings are kept, ids ascending and
\* ids descending in supply order, so that supply order and id order differ.
Labelings(n) == { [i \in 1..n |-> i], [i \in 1..n |-> n + 1 - i] }

\* every collection of at most MaxNodes versions with unique ids, each
\* parent_id being None, an id of the collection (its own included), or an
\* id that no version of the collection has
Collections ==
    UNION { { [i \in 1..n |-> Version(ids[i], ps[i])] :
                ids \in Labelings(n), ps \in [1..n -> ParentIds] } :
            n \in 0..MaxNodes }

\* every sequence of at most MaxLen distinct elements
PageLists == UNION { InjSeqs(1..MaxLen, n) : n \in 0..MaxLen }

\* _versions.clear(); _versions.extend(versions); _refresh_cache()
Seeded(vs) ==
    /\ _versions = vs
    /\ _builder = TreeBuilder(vs)
    /\ _linearized = linearize(TreeBuilder(vs))

PageIdle ==
    /\ pgList = << >>
    /\ pgSize = 1
    /\ pgPage = 1
    /\ pgRet = << << >>, 1 >>
    /\ pgAcc = << >>
    /\ pgNext = 1

\* ---------------------------------------------------------------------
\* The engine on one collection
\* ---------------------------------------------------------------------
Init ==
    /\ \E vs \in Collections : Seeded(vs)
    /\ op = "init"
    /\ arg = None
    /\ response = << >>
    /\ PageIdle

\* builder.linearize()
Linearize ==
    /\ op' = "linearize"
    /\ arg' = None
    /\ response' = linearize(_builder)
    /\ UNCHANGED <<_versions, _builder, _linearized>>
    /\ UNCHANGED pageVars

\* builder.lookup(node_id)
Lookup(node_id) ==
    /\ op' = "lookup"
    /\ arg' = node_id
    /\ response' = lookup(_builder, node_id)
    /\ UNCHANGED <<_versions, _builder, _linearized>>
    /\ UNCHANGED pageVars

\* GET /versions/{version_id}
GetVersion(version_id) ==
    /\ op' = "get_version"
    /\ arg' = version_id
    /\ response' = get_version(_linearized, version_id)
    /\ UNCHANGED <<_versions, _builder, _linearized>>
    /\ UNCHANGED pageVars

Next ==
    \/ Linearize
    \/ \E node_id \in 1..(MaxNodes + 1) : Lookup(node_id)
    \/ \E version_id \in 1..(MaxNodes + 1) : GetVersion(version_id)

Spec == Init /\ [][Next]_vars

\* ---------------------------------------------------------------------
\* get_page on one sequence
\* ---------------------------------------------------------------------
TotalPages(lin, page_size) == get_page(lin, 1, page_size)[2]

InitPage ==
    /\ Seeded(<< >>)
    /\ op = "init"
    /\ arg = None
    /\ response = << >>
    /\ pgList \in PageLists
    /\ pgSize \in 1..MaxPageSize
    /\ pgPage = 1
    /\ pgRet = << << >>, 1 >>
    /\ pgAcc = << >>
    /\ pgNext = 1

\* builder.get_page(linearized, page, page_size)
GetPage(page) ==
    /\ op' = "get_page"
    /\ pgPage' = page
    /\ pgRet' = get_page(pgList, page, pgSize)
    /\ UNCHANGED <<_versions, _builder, _linearized, arg, response>>
    /\ UNCHANGED <<pgList, pgSize, pgAcc, pgNext>>

\* a client fetching the next page in turn, up to total_pages
ReadNextPage ==
    /\ pgNext <= TotalPages(pgList, pgSize)
    /\ op' = "read_page"
    /\ pgPage' = pgNext
    /\ pgRet' = get_page(pgList, pgNext, pgSize)
    /\ pgAcc' = pgAcc \o get_page(pgList, pgNext, pgSize)[1]
    /\ pgNext' = pgNext + 1
    /\ UNCHANGED <<_versions, _builder, _linearized, arg, response>>
    /\ UNCHANGED <<pgList, pgSize>>

NextPage ==
    \/ \E page \in (1 - PageSlack)..(MaxLen + PageSlack) : GetPage(page)
    \/ ReadNextPage

SpecPage == InitPage /\ [][NextPage]_vars

\* ---------------------------------------------------------------------
\* The tree the stored collection describes, read off _versions directly
\* ---------------------------------------------------------------------
IdsOf == { _versions[i].id : i \in 1..Len(_versions) }

\* where the version with this id was supplied
SupplyIndex(id) == CHOOSE i \in 1..Len(_versions) : _versions[i].id = id

ParentOf(id) == _versions[SupplyIndex(id)].parent_id

\* parent_id is null or matches no id
IsRootId(id) == ParentOf(id) = None \/ ParentOf(id) \notin IdsOf

\* no version supplied after this one has the same parent_id
IsLastOfParent(id) ==
    \A j \in 1..Len(_versions) :
        _versions[j].parent_id = ParentOf(id) => j <= SupplyIndex(id)

\* the children of id, in supply order
KidsOf(id) == SelectIds(_versions, {id})

\* the ids from the root of id's tree down to id (id hangs under a root)
RECURSIVE RootPath(_)
RootPath(id) ==
    IF IsRootId(id) THEN <<id>> ELSE RootPath(ParentOf(id)) \o <<id>>

\* the k-th parent of id, or -1 once the chain has left the collection
RECURSIVE ParentPow(_, _)
ParentPow(id, k) ==
    IF k = 0 THEN id
    ELSE LET y == ParentPow(id, k - 1)
         IN  IF y \in IdsOf THEN ParentOf(y) ELSE -1

\* id and everything below it
Subtree(id) ==
    { x \in IdsOf : \E k \in 0..Len(_versions) : ParentPow(x, k) = id }

\* some version's parent chain never reaches a root
HasCycle == \E x \in IdsOf : ParentPow(x, Len(_versions)) \in IdsOf

\* positions of id in a linearized sequence, and the first of them (0: none)
Places(out, id) == { k \in 1..Len(out) : out[k].version.id = id }
Pos(out, id) ==
    IF Places(out, id) = {} THEN 0
    ELSE CHOOSE k \in Places(out, id) : \A m \in Places(out, id) : k <= m

IdSeq(out) == [k \in 1..Len(out) |-> out[k].version.id]

\* ---------------------------------------------------------------------
\* Claims
\* ---------------------------------------------------------------------

\* C1: for every non-empty collection with unique ids, whatever the
\* parent_id values, linearize() returns every node exactly once and every
\* depth-0 node has empty ancestors.
C1_EveryNodeOnce ==
    (op = "linearize" /\ _versions # << >>) =>
        /\ \A id \in IdsOf : Cardinality(Places(response, id)) = 1
        /\ Len(response) = Len(_versions)
        /\ \A k \in 1..Len(response) :
              response[k].depth = 0 => response[k].ancestors = << >>

\* C2: pre-order over input order: every node N with children C1..Ck (in
\* supply order) appears immediately before C1, and the subtree of each Ci
\* is one contiguous block that ends before C(i+1).
C2_PreOrder ==
    op = "linearize" =>
        \A n \in IdsOf :
            LET kids == KidsOf(n)
                EndOf(c) == Pos(response, c) + Cardinality(Subtree(c)) - 1
            IN  kids # << >> =>
                  /\ Pos(response, n) > 0
                  /\ Pos(response, kids[1]) = Pos(response, n) + 1
                  /\ \A i \in 1..Len(kids) :
                        /\ Pos(response, kids[i]) > 0
                        /\ EndOf(kids[i]) <= Len(response)
                        /\ { response[k].version.id :
                                k \in Pos(response, kids[i])..EndOf(kids[i]) }
                             = Subtree(kids[i])
                        /\ i < Len(kids) =>
                              EndOf(kids[i]) < Pos(response, kids[i + 1])

\* C3: a depth-0 node has connectors [NODE]; a node at depth d > 0 has d+1
\* tokens: token i (0 <= i <= d-2) is VERTICAL iff the node at depth i+1 on
\* its root path is not the last child of its parent, else SPACE; token d-1
\* is CORNER iff the node is the last child of its parent, else TEE; token d
\* is the NODE marker.
C3_Connectors ==
    op = "linearize" =>
        \A k \in 1..Len(response) :
            LET n    == response[k]
                d    == n.depth
                path == RootPath(n.version.id)
            IN  /\ d = 0 => n.connectors = <<NODE_DOT>>
                /\ d > 0 =>
                      /\ Len(n.connectors) = d + 1
                      /\ Len(path) = d + 1
                      /\ \A i \in 0..(d - 2) :
                            n.connectors[i + 1] =
                                IF ~IsLastOfParent(path[i + 2])
                                THEN VERTICAL ELSE SPACE
                      /\ n.connectors[d] =
                            IF IsLastOfParent(n.version.id) THEN CORNER ELSE TEE
                      /\ n.connectors[d + 1] = NODE_DOT

\* a node two levels down whose depth-1 ancestor has a later sibling
C3_Witness ==
    /\ op = "linearize"
    /\ \E k \in 1..Len(response) :
          /\ response[k].depth = 2
          /\ response[k].connectors = <<VERTICAL, CORNER, NODE_DOT>>

\* C4: ancestors is the parent chain from the root of the node's tree down
\* to its immediate parent; for a non-root node the last element is its
\* parent_id and the rest is the parent's ancestors; len(ancestors) = depth.
C4_Ancestors ==
    op = "linearize" =>
        \A k \in 1..Len(response) :
            LET n    == response[k]
                path == RootPath(n.version.id)
            IN  /\ n.ancestors = SubSeq(path, 1, Len(path) - 1)
                /\ Len(n.ancestors) = n.depth
                /\ ~IsRootId(n.version.id) =>
                      /\ n.ancestors[Len(n.ancestors)] = n.version.parent_id
                      /\ Pos(response, n.version.parent_id) > 0
                      /\ SubSeq(n.ancestors, 1, Len(n.ancestors) - 1)
                           = response[Pos(response, n.version.parent_id)].ancestors

C4_Witness ==
    /\ op = "linearize"
    /\ \E k \in 1..Len(response) : Len(response[k].ancestors) = 2

\* C5: is_last_child is true iff the node's id is the last element of its
\* parent's children sequence or, for a root (parent_id null or matching no
\* id), the last element of the root list.
C5_IsLastChild ==
    op = "linearize" =>
        \A k \in 1..Len(response) :
            LET n  == response[k]
                id == n.version.id
            IN  n.is_last_child <=>
                  IF IsRootId(id)
                  THEN id = _builder.roots[Len(_builder.roots)]
                  ELSE id = KidsOf(ParentOf(id))[Len(KidsOf(ParentOf(id)))]

\* C6: every node whose parent_id is null or matches no id is emitted with
\* depth 0 and empty ancestors; no node whose parent_id matches an existing
\* id is emitted with depth 0.
C6_OrphanIsRoot ==
    op = "linearize" =>
        \A id \in IdsOf :
            IF ParentOf(id) = None \/ ParentOf(id) \notin IdsOf
            THEN /\ Places(response, id) # {}
                 /\ \A k \in Places(response, id) :
                       response[k].depth = 0 /\ response[k].ancestors = << >>
            ELSE \A k \in Places(response, id) : response[k].depth # 0

\* a dangling parent reference, with a child of its own, next to a null root
C6_Witness ==
    /\ op = "linearize"
    /\ \E id \in IdsOf :
          /\ ParentOf(id) # None
          /\ ParentOf(id) \notin IdsOf
          /\ KidsOf(id) # << >>
          /\ response[Pos(response, id)].depth = 0
    /\ \E id \in IdsOf : ParentOf(id) = None

\* C7: for every sequence, every integer page and every page_size >= 1,
\* get_page returns total_pages = max(1, ceil(len / page_size)) and the
\* elements at zero-based offsets [(p-1)*page_size, (p-1)*page_size +
\* page_size) with p = min(max(page, 1), total_pages).
ExpectedTotalPages ==
    IF Len(pgList) = 0 THEN 1
    ELSE CHOOSE t \in 1..Len(pgList) :
            (t - 1) * pgSize < Len(pgList) /\ Len(pgList) <= t * pgSize

ExpectedSlice(page) ==
    LET p       == Min(Max(page, 1), ExpectedTotalPages)
        first   == (p - 1) * pgSize
        offsets == { o \in first..(first + pgSize - 1) : o < Len(pgList) }
    IN  [i \in 1..Cardinality(offsets) |-> pgList[first + i]]

C7_GetPage ==
    op \in {"get_page", "read_page"} =>
        pgRet = <<ExpectedSlice(pgPage), ExpectedTotalPages>>

\* a page below 1 answered with the first of several pages
C7_Witness ==
    /\ op = "get_page"
    /\ pgPage < 1
    /\ pgRet[2] > 1
    /\ pgRet[1] = SubSeq(pgList, 1, pgSize)

\* C8: the slices of pages 1..total_pages, concatenated in that order, are
\* exactly the sequence: no gap, no overlap, nothing missing at the end.
C8_PagesConcat ==
    /\ pgAcc = SubSeq(pgList, 1, Min(Len(pgList), (pgNext - 1) * pgSize))
    /\ pgNext > TotalPages(pgList, pgSize) => pgAcc = pgList

\* all pages read, the last one shorter than page_size
C8_Witness ==
    /\ op = "read_page"
    /\ pgNext > TotalPages(pgList, pgSize)
    /\ TotalPages(pgList, pgSize) >= 2
    /\ Len(pgRet[1]) < pgSize
    /\ pgAcc = pgList

\* C9: lookup(id) returns the node linearize() produces for id when a
\* version with that id is in the collection, and None when there is none.
C9_Lookup ==
    op = "lookup" =>
        IF arg \in IdsOf
        THEN /\ Len(response) = 1
             /\ response[1].version.id = arg
             /\ \E k \in 1..Len(_linearized) : _linearized[k] = response[1]
        ELSE response = << >>

\* C10: for a node T of the linearized sequence, the nodes selected from
\* the sequence by T.ancestors are T's ancestors, one entry each and no
\* other node, in the order of T.ancestors (root first, parent last).
C10_Ancestry ==
    (op = "get_version" /\ response.status = 200) =>
        LET t    == response.node[1]
            path == RootPath(t.version.id)
        IN  /\ IdSeq(response.ancestry) = t.ancestors
            /\ IdSeq(response.ancestry) = SubSeq(path, 1, Len(path) - 1)
            /\ \A i \in 1..Len(response.ancestry) :
                  \E k \in 1..Len(_linearized) :
                      _linearized[k] = response.ancestry[i]

\* a node with two ancestors, queried in a sequence that starts with a
\* node of another tree
C10_Witness ==
    /\ op = "get_version"
    /\ response.status = 200
    /\ Len(response.ancestry) = 2
    /\ _linearized[1].version.id # response.ancestry[1].version.id

\* ---------------------------------------------------------------------
\* main.py: the in-memory store and its handlers
\* ---------------------------------------------------------------------
PAGE_SIZE == 10

\* the sample loaded at import: v1 .. v15 as 1 .. 15, with their parent_id
SampleParents == <<None, 1, 1, 2, 2, 3, 4, 4, 5, 6, 6, 7, 8, 11, 12>>
SampleData == [i \in 1..Len(SampleParents) |-> Version(i, SampleParents[i])]

\* linearize() never returns on b: from some root, _dfs comes back to a
\* node that is already on its own call path, recurses without end and
\* the interpreter raises RecursionError.  path: the ids on the call path.
RECURSIVE DfsRevisits(_, _, _)
DfsRevisits(b, node_id, path) ==
    \/ node_id \in path
    \/ \E i \in 1..Len(ChildrenGet(b, node_id)) :
          DfsRevisits(b, ChildrenGet(b, node_id)[i], path \cup {node_id})

LinearizeRaises(b) ==
    \E k \in 1..Len(b.roots) : DfsRevisits(b, b.roots[k], {})

\* "".join(tokens)
RECURSIVE Join(_)
Join(tokens) ==
    IF tokens = << >> THEN "" ELSE Head(tokens) \o Join(Tail(tokens))

\* GET /versions: the PageResponse
get_versions(lin, page) ==
    LET r == get_page(lin, page, PAGE_SIZE)
    IN  [status |-> 200, page |-> page, page_size |-> PAGE_SIZE,
         total_nodes |-> Len(lin), total_pages |-> r[2], nodes |-> r[1]]

\* GET /versions/debug/tree: one line per node, the connectors but the
\* last joined; the name and id the line ends with are kept as the id
debug_tree(lin) ==
    IF lin = << >> THEN [status |-> 200, tree |-> << >>]
    ELSE [status |-> 200,
          tree |-> [k \in 1..Len(lin) |->
                      [prefix |-> Join(PySlice(lin[k].connectors, 0,
                                               Len(lin[k].connectors) - 1)),
                       id |-> lin[k].version.id]]]

\* the bodies POST /versions/seed is given: at most MaxSeed versions, ids
\* not necessarily distinct (the request model does not ask for it)
SeedIds == 1..2
SeedVersions == { Version(id, p) : id \in SeedIds, p \in {None} \cup SeedIds }
SeedBodies == UNION { [1..n -> SeedVersions] : n \in 0..MaxSeed }

InitStore ==
    /\ Seeded(SampleData)
    /\ op = "init"
    /\ arg = None
    /\ response = << >>
    /\ PageIdle

\* POST /versions/seed.  _versions is replaced in place, then
\* _refresh_cache assigns _builder, then _linearized; when linearize()
\* raises, the handler ends there with what was assigned so far.
SeedVersionsHandler(versions) ==
    /\ op' = "seed_versions"
    /\ arg' = None
    /\ _versions' = versions
    /\ _builder' = TreeBuilder(versions)
    /\ IF LinearizeRaises(TreeBuilder(versions))
       THEN /\ UNCHANGED _linearized
            /\ response' = [status |-> 500]
       ELSE /\ _linearized' = linearize(TreeBuilder(versions))
            /\ response' = [status |-> 200, loaded |-> Len(versions),
                            total_nodes |-> Len(linearize(TreeBuilder(versions)))]
    /\ UNCHANGED pageVars

GetVersionsHandler(page) ==
    /\ op' = "get_versions"
    /\ arg' = None
    /\ response' = get_versions(_linearized, page)
    /\ UNCHANGED <<_versions, _builder, _linearized>>
    /\ UNCHANGED pageVars

DebugTreeHandler ==
    /\ op' = "debug_tree"
    /\ arg' = None
    /\ response' = debug_tree(_linearized)
    /\ UNCHANGED <<_versions, _builder, _linearized>>
    /\ UNCHANGED pageVars

NextStore ==
    \/ \E versions \in SeedBodies : SeedVersionsHandler(versions)
    \/ \E page \in 1..3 : GetVersionsHandler(page)
    \/ \E version_id \in 1..3 : GetVersion(version_id)
    \/ DebugTreeHandler

SpecStore == InitStore /\ [][NextStore]_vars

\* C11: after the sample load and after any sequence of seeds and queries,
\* _builder is the builder of the current _versions and _linearized is its
\* linearize(): no query sees a sequence computed from an earlier node set.
C11_CacheConsistent ==
    /\ _builder = TreeBuilder(_versions)
    /\ ~LinearizeRaises(TreeBuilder(_versions))
    /\ _linearized = linearize(TreeBuilder(_versions))

====
